---- MODULE Spec2Model ----
(***************************************************************************)
(* A model of src/proxy/middleware/request/mutators/sign-aws-request.ts:   *)
(* the request mutator signAwsRequest and its helpers getCredentialParts,  *)
(* sign and getStrictlyValidatedBodyForAws.                                *)
(*                                                                         *)
(* Strings the code takes apart or searches (the composite secret, the     *)
(* model id, the inference profile ids, the request path) are sequences of *)
(* one-character strings.  Strings the code only passes along (messages,   *)
(* header values, body values, dialect tags) are TLA+ strings.  An         *)
(* optional value is a sequence of length 0 or 1.                          *)
(***************************************************************************)
EXTENDS Naturals, Sequences, FiniteSets, TLC

VARIABLES
    pc,             \* position of the one invocation of signAwsRequest
    pool,           \* the key keyPool.get(model, "aws") returns
    req,            \* manager.request: body, inboundApi, outboundApi, key
    headers,        \* headers set through manager.setHeader
    signed,         \* the arguments of the manager.setSignedRequest calls, in order
    log,            \* the records written through req.log, in order
    credential,     \* const credential (line 30), optional
    host,           \* const host (line 31), optional
    profile,        \* const profile (line 40), optional
    newRequest,     \* const newRequest (line 45), optional
    signerInput,    \* the requests handed to sign(), in order
    thrown          \* the error the invocation rejected with, optional

vars == <<pc, pool, req, headers, signed, log, credential, host, profile,
          newRequest, signerInput, thrown>>

(***************************************************************************)
(* Bounds of the model.                                                    *)
(***************************************************************************)
MaxKeyLen == 5        \* longest composite secret
MaxIdLen == 2         \* longest model id and inference profile id
MaxProfiles == 2      \* longest inferenceProfileIds list
MaxBodyFields == 3    \* most fields of a body besides model and stream

(***************************************************************************)
(* String helpers.                                                         *)
(***************************************************************************)
RECURSIVE StringsUpTo(_, _)
StringsUpTo(chars, n) ==
    IF n = 0 THEN {<< >>}
    ELSE LET shorter == StringsUpTo(chars, n - 1)
         IN  shorter \cup {Append(s, c) : s \in shorter, c \in chars}

RECURSIVE ListsUpTo(_, _)
ListsUpTo(elems, n) ==
    IF n = 0 THEN {<< >>}
    ELSE LET shorter == ListsUpTo(elems, n - 1)
         IN  shorter \cup {Append(s, e) : s \in shorter, e \in elems}

\* String.prototype.includes
Includes(s, part) ==
    \E i \in 0..(Len(s) - Len(part)) : SubSeq(s, i + 1, i + Len(part)) = part

\* String.prototype.endsWith
EndsWith(s, suffix) ==
    /\ Len(suffix) <= Len(s)
    /\ SubSeq(s, Len(s) - Len(suffix) + 1, Len(s)) = suffix

\* String.prototype.split(":")
RECURSIVE Split(_)
Split(s) ==
    LET colons == {i \in 1..Len(s) : s[i] = ":"}
    IN  IF colons = {} THEN <<s>>
        ELSE LET i == CHOOSE j \in colons : \A k \in colons : j <= k
             IN  <<SubSeq(s, 1, i - 1)>> \o Split(SubSeq(s, i + 1, Len(s)))

\* !arr[i] for a destructured array of strings: undefined or ""
Falsy(arr, i) == i > Len(arr) \/ arr[i] = << >>

(***************************************************************************)
(* getCredentialParts, lines 78-90.                                        *)
(***************************************************************************)
CredentialLogMessage == "AWS_CREDENTIALS isn't correctly formatted; refer to the docs"
CredentialError == "The key assigned to this request is invalid."

\* faulty variant: the region is not checked
getCredentialPartsUncheckedRegion(key) ==
    LET parts == Split(key.key)
    IN  IF Falsy(parts, 1) \/ Falsy(parts, 2)
        THEN [threw |-> TRUE,
              logs |-> <<[level |-> "error", key |-> key.hash,
                          msg |-> CredentialLogMessage]>>,
              error |-> CredentialError]
        ELSE [threw |-> FALSE,
              logs |-> << >>,
              value |-> [accessKeyId |-> parts[1],
                         secretAccessKey |-> parts[2],
                         region |-> IF Len(parts) >= 3 THEN parts[3] ELSE << >>]]

\* faulty variant: the error record carries the secret
getCredentialPartsLoggingSecret(key) ==
    LET parts == Split(key.key)
    IN  IF Falsy(parts, 1) \/ Falsy(parts, 2) \/ Falsy(parts, 3)
        THEN [threw |-> TRUE,
              logs |-> <<[level |-> "error", key |-> key.key,
                          msg |-> CredentialLogMessage]>>,
              error |-> CredentialError]
        ELSE [threw |-> FALSE,
              logs |-> << >>,
              value |-> [accessKeyId |-> parts[1],
                         secretAccessKey |-> parts[2],
                         region |-> parts[3]]]

getCredentialParts(key) ==
    LET parts == Split(key.key)
    IN  IF Falsy(parts, 1) \/ Falsy(parts, 2) \/ Falsy(parts, 3)
        THEN [threw |-> TRUE,
              logs |-> <<[level |-> "error", key |-> key.hash,
                          msg |-> CredentialLogMessage]>>,
              error |-> CredentialError]
        ELSE [threw |-> FALSE,
              logs |-> << >>,
              value |-> [accessKeyId |-> parts[1],
                         secretAccessKey |-> parts[2],
                         region |-> parts[3]]]

(***************************************************************************)
(* The vendor schemas of shared/api-schemas, as the specification          *)
(* describes them: a field holds a value the schema accepts or one it      *)
(* rejects, and some fields are required.  A body is a function from field *)
(* names to values; "model" holds a string and "stream" a boolean.         *)
(***************************************************************************)
InvalidValue == "invalid"
ParamValues == {"v1", InvalidValue}

SchemaAccepts(k, v) ==
    IF k = "model" THEN TRUE
    ELSE IF k = "stream" THEN v \in BOOLEAN
    ELSE v # InvalidValue

AnthropicV1TextRequired == {"prompt"}
AnthropicV1MessagesRequired == {"messages"}
AWSMistralV1ChatCompletionsFields ==
    {"model", "stream", "messages", "max_tokens", "temperature", "top_p"}
AWSMistralV1ChatCompletionsRequired == {"messages"}
AWSMistralV1TextCompletionsFields ==
    {"model", "stream", "prompt", "max_tokens", "temperature", "top_p", "top_k"}
AWSMistralV1TextCompletionsRequired == {"prompt"}

ZodError == "ZodError"

\* schema.pick(picked).strip().parse(body)
PickStripParse(required, picked, body) ==
    LET kept == DOMAIN body \cap picked
    IN  IF \/ \E k \in kept : ~SchemaAccepts(k, body[k])
           \/ ~((required \cap picked) \subseteq DOMAIN body)
        THEN [threw |-> TRUE, error |-> ZodError]
        ELSE [threw |-> FALSE, value |-> [k \in kept |-> body[k]]]

\* schema.parse(body) of a schema that rejects extraneous fields
StrictParse(required, fields, body) ==
    IF \/ ~(DOMAIN body \subseteq fields)
       \/ \E k \in DOMAIN body \cap fields : ~SchemaAccepts(k, body[k])
       \/ ~(required \subseteq DOMAIN body)
    THEN [threw |-> TRUE, error |-> ZodError]
    ELSE [threw |-> FALSE, value |-> body]

(***************************************************************************)
(* getStrictlyValidatedBodyForAws, lines 105-148.                          *)
(***************************************************************************)
AnthropicTextPick ==
    {"prompt", "max_tokens_to_sample", "stop_sequences", "temperature",
     "top_k", "top_p"}
AnthropicChatPick ==
    {"messages", "system", "max_tokens", "stop_sequences", "temperature",
     "top_k", "top_p"}
BedrockAnthropicVersion == "bedrock-2023-05-31"
UnexpectedApiError == "Unexpected outbound API for AWS."

\* faulty variant: the header's version in place of the body's
SetHeaderVersion(params) ==
    [k \in DOMAIN params \cup {"anthropic_version"} |->
        IF k = "anthropic_version" THEN "2023-06-01" ELSE params[k]]

\* strippedParams.anthropic_version = "bedrock-2023-05-31"
SetAnthropicVersion(params) ==
    [k \in DOMAIN params \cup {"anthropic_version"} |->
        IF k = "anthropic_version" THEN BedrockAnthropicVersion ELSE params[k]]

\* case "anthropic-text", lines 112-123
AnthropicTextBody(body) ==
    PickStripParse(AnthropicV1TextRequired, AnthropicTextPick, body)

\* case "anthropic-chat", lines 124-137
AnthropicChatBody(body) ==
    LET parsed == PickStripParse(AnthropicV1MessagesRequired, AnthropicChatPick,
                                 body)
    IN  IF parsed.threw THEN parsed
        ELSE [threw |-> FALSE, value |-> SetAnthropicVersion(parsed.value)]

\* case "mistral-ai", lines 138-140
MistralChatBody(body) ==
    StrictParse(AWSMistralV1ChatCompletionsRequired,
                AWSMistralV1ChatCompletionsFields, body)

\* case "mistral-text", lines 141-143
MistralTextBody(body) ==
    StrictParse(AWSMistralV1TextCompletionsRequired,
                AWSMistralV1TextCompletionsFields, body)

\* faulty variant: the parsed fields are merged into the body instead of replacing it
getValidatedBodyUnstripped(r) ==
    LET merge(parsed) ==
            IF parsed.threw THEN parsed
            ELSE [threw |-> FALSE,
                  value |-> [k \in DOMAIN r.body \cup DOMAIN parsed.value |->
                                IF k \in DOMAIN parsed.value THEN parsed.value[k]
                                ELSE r.body[k]]]
    IN  CASE r.outboundApi = "anthropic-text" -> merge(AnthropicTextBody(r.body))
          [] r.outboundApi = "anthropic-chat" -> merge(AnthropicChatBody(r.body))
          [] r.outboundApi = "mistral-ai" -> MistralChatBody(r.body)
          [] r.outboundApi = "mistral-text" -> MistralTextBody(r.body)
          [] OTHER -> [threw |-> TRUE, error |-> UnexpectedApiError]

\* faulty variant: the default case passes the body through
getValidatedBodyDefaultPasses(r) ==
    CASE r.outboundApi = "anthropic-text" -> AnthropicTextBody(r.body)
      [] r.outboundApi = "anthropic-chat" -> AnthropicChatBody(r.body)
      [] r.outboundApi = "mistral-ai" -> MistralChatBody(r.body)
      [] r.outboundApi = "mistral-text" -> MistralTextBody(r.body)
      [] OTHER -> [threw |-> FALSE, value |-> r.body]

getStrictlyValidatedBodyForAws(r) ==
    CASE r.outboundApi = "anthropic-text" -> AnthropicTextBody(r.body)
      [] r.outboundApi = "anthropic-chat" -> AnthropicChatBody(r.body)
      [] r.outboundApi = "mistral-ai" -> MistralChatBody(r.body)
      [] r.outboundApi = "mistral-text" -> MistralTextBody(r.body)
      [] OTHER -> [threw |-> TRUE, error |-> UnexpectedApiError]

\* JSON.stringify: the text of a value, kept as a term over the value
JSONStringify(v) == [json |-> v]

(***************************************************************************)
(* sign, lines 92-103: SignatureV4.sign returns a copy of the request with *)
(* the date, content hash and authorization headers added.  Digests are    *)
(* terms over what they hash.  The signer may reject.                      *)
(***************************************************************************)
Timestamps == {"20240101T000000Z", "20240102T000000Z"}
SigningError == "SigningError"

WithHeader(h, name, value) ==
    [k \in DOMAIN h \cup {name} |-> IF k = name THEN value ELSE h[k]]

CanonicalRequest(request) ==
    [method |-> request.method, path |-> request.path,
     signedHeaders |-> DOMAIN request.headers,
     payloadHash |-> [sha256 |-> request.body]]

sign(request, cred, now) ==
    LET dated == [request EXCEPT !.headers =
                      WithHeader(
                          WithHeader(request.headers, "x-amz-date", now),
                          "x-amz-content-sha256", [sha256 |-> request.body])]
        authorization ==
            [algorithm |-> "AWS4-HMAC-SHA256",
             accessKeyId |-> cred.accessKeyId,
             scope |-> <<now, cred.region, "bedrock", "aws4_request">>,
             signature |-> [hmac |-> cred.secretAccessKey,
                            canonical |-> CanonicalRequest(dated)]]
    IN  [dated EXCEPT !.headers = WithHeader(dated.headers, "authorization",
                                             authorization)]

(***************************************************************************)
(* signAwsRequest, lines 24-70: the pieces it computes.                    *)
(***************************************************************************)
\* AMZ_HOST.replace("%REGION%", credential.region), with the default AMZ_HOST
HostOf(region) == <<"bedrock-runtime.">> \o region \o <<".amazonaws.com">>

AnthropicVersionHeader == "2023-06-01"

\* faulty variant: the last matching profile
SelectLastProfile(ids, model) ==
    LET hits == {i \in 1..Len(ids) : Includes(ids[i], model)}
    IN  IF hits = {} THEN model
        ELSE LET last == CHOOSE i \in hits : \A j \in hits : i >= j
             IN  IF ids[last] = << >> THEN model ELSE ids[last]

\* key.inferenceProfileIds.find((p) => p.includes(model)) || model
SelectProfile(ids, model) ==
    LET hits == {i \in 1..Len(ids) : Includes(ids[i], model)}
    IN  IF hits = {} THEN model
        ELSE LET first == CHOOSE i \in hits : \A j \in hits : i <= j
             IN  IF ids[first] = << >> THEN model ELSE ids[first]

ModelPrefix == <<"/", "m", "o", "d", "e", "l", "/">>
InvokeSuffix == <<"/", "i", "n", "v", "o", "k", "e">>
StreamSuffix ==
    <<"-", "w", "i", "t", "h", "-", "r", "e", "s", "p", "o", "n", "s", "e",
      "-", "s", "t", "r", "e", "a", "m">>

\* `/model/${profile}/invoke${stream ? "-with-response-stream" : ""}`
PathOf(id, stream) ==
    ModelPrefix \o id \o InvokeSuffix \o (IF stream THEN StreamSuffix ELSE << >>)

\* new HttpRequest({...}), lines 45-55
HttpRequest(h, id, stream, bodyText) ==
    [method |-> "POST", protocol |-> "https:", hostname |-> h,
     path |-> PathOf(id, stream),
     headers |-> [k \in {"Host", "content-type"} |->
                     IF k = "Host" THEN h ELSE "application/json"],
     body |-> bodyText]

\* faulty variant: the generic accept header is always added
AcceptHeadersAlwaysGeneric(h, stream) ==
    IF stream
    THEN WithHeader(WithHeader(h, "accept", "*/*"),
                    "x-amzn-bedrock-accept", "application/json")
    ELSE WithHeader(h, "accept", "*/*")

\* lines 57-61
AcceptHeaders(h, stream) ==
    IF stream THEN WithHeader(h, "x-amzn-bedrock-accept", "application/json")
    ELSE WithHeader(h, "accept", "*/*")

AssignedLogMessage == "Assigned AWS credentials to request"

\* the record of lines 64-67
AssignedRecord(key, r, id) ==
    [level |-> "info", key |-> key.hash, model |-> r.body["model"],
     profile |-> id, inboundApi |-> r.inboundApi,
     outboundApi |-> r.outboundApi, msg |-> AssignedLogMessage]

(***************************************************************************)
(* The inputs of an invocation.                                            *)
(***************************************************************************)
SecretChars == {"k", "s", ":"}
HashChars == {"0", "1"}
IdChars == {"a", "b"}

Secrets == StringsUpTo(SecretChars, MaxKeyLen)
Hashes == {<<"0">>, <<"1">>}
Ids == StringsUpTo(IdChars, MaxIdLen)
ProfileLists == ListsUpTo(Ids, MaxProfiles)

GoodSecret == <<"k", ":", "s", ":", "k">>
DefaultModel == <<"a">>

OptionalFields ==
    AnthropicTextPick \cup AnthropicChatPick \cup {"anthropic_version", "foo"}
Params ==
    UNION {[D -> ParamValues] :
              D \in {S \in SUBSET OptionalFields : Cardinality(S) <= MaxBodyFields}}

Body(model, stream, params) ==
    [k \in {"model", "stream"} \cup DOMAIN params |->
        IF k = "model" THEN model ELSE IF k = "stream" THEN stream ELSE params[k]]

ChatParams == [k \in {"messages", "temperature"} |-> "v1"]

OutboundApis ==
    {"anthropic-text", "anthropic-chat", "mistral-ai", "mistral-text",
     "openai", "google-ai"}

Key(secret, hash, ids) == [key |-> secret, hash |-> hash, inferenceProfileIds |-> ids]
Request(body, outboundApi) ==
    [body |-> body, inboundApi |-> "openai", outboundApi |-> outboundApi,
     key |-> << >>]

Started(key, request) ==
    /\ pool = key
    /\ req = request
    /\ pc = "start"
    /\ headers = << >>
    /\ signed = << >>
    /\ log = << >>
    /\ credential = << >>
    /\ host = << >>
    /\ profile = << >>
    /\ newRequest = << >>
    /\ signerInput = << >>
    /\ thrown = << >>

\* every secret, with a body that passes
CredentialCases ==
    \E s \in Secrets, h \in Hashes, st \in BOOLEAN :
        Started(Key(s, h, << >>),
                Request(Body(DefaultModel, st, ChatParams), "anthropic-chat"))

\* every model id and profile list, with a secret and a body that pass
ProfileCases ==
    \E ids \in ProfileLists, m \in Ids, st \in BOOLEAN :
        Started(Key(GoodSecret, <<"0">>, ids),
                Request(Body(m, st, ChatParams), "anthropic-chat"))

\* every body and dialect, with a secret that passes
BodyCases ==
    \E st \in BOOLEAN, p \in Params, api \in OutboundApis :
        Started(Key(GoodSecret, <<"0">>, <<<<"a", "b">>>>),
                Request(Body(DefaultModel, st, p), api))

Init == CredentialCases \/ ProfileCases \/ BodyCases

(***************************************************************************)
(* The steps of signAwsRequest.                                            *)
(***************************************************************************)
\* lines 25-28: keyPool.get and manager.setKey
AssignKey ==
    /\ pc = "start"
    /\ req' = [req EXCEPT !.key = <<pool>>]
    /\ pc' = "credential"
    /\ UNCHANGED <<pool, headers, signed, log, credential, host, profile,
                   newRequest, signerInput, thrown>>

\* lines 30-31
ExtractCredential ==
    /\ pc = "credential"
    /\ LET got == getCredentialParts(req.key[1])
       IN  /\ log' = log \o got.logs
           /\ IF got.threw
              THEN /\ thrown' = <<got.error>>
                   /\ pc' = "failed"
                   /\ UNCHANGED <<credential, host>>
              ELSE /\ credential' = <<got.value>>
                   /\ host' = <<HostOf(got.value.region)>>
                   /\ pc' = "header"
                   /\ UNCHANGED thrown
    /\ UNCHANGED <<pool, req, headers, signed, profile, newRequest, signerInput>>

\* faulty variant: the header is set for the anthropic dialects only
SetVersionHeaderForAnthropic ==
    /\ pc = "header"
    /\ headers' = IF req.outboundApi \in {"anthropic-text", "anthropic-chat"}
                  THEN Append(headers, <<"anthropic-version", AnthropicVersionHeader>>)
                  ELSE headers
    /\ pc' = "profile"
    /\ UNCHANGED <<pool, req, signed, log, credential, host, profile,
                   newRequest, signerInput, thrown>>

\* line 35
SetVersionHeader ==
    /\ pc = "header"
    /\ headers' = Append(headers, <<"anthropic-version", AnthropicVersionHeader>>)
    /\ pc' = "profile"
    /\ UNCHANGED <<pool, req, signed, log, credential, host, profile,
                   newRequest, signerInput, thrown>>

\* lines 40-41
ChooseProfile ==
    /\ pc = "profile"
    /\ profile' = <<SelectProfile(pool.inferenceProfileIds, req.body["model"])>>
    /\ pc' = "build"
    /\ UNCHANGED <<pool, req, headers, signed, log, credential, host,
                   newRequest, signerInput, thrown>>

\* faulty variant: a rejected body is sent as it came
BuildRequestSwallowing ==
    /\ pc = "build"
    /\ LET validated == getStrictlyValidatedBodyForAws(req)
           sent == IF validated.threw THEN req.body ELSE validated.value
       IN  /\ newRequest' = <<HttpRequest(host[1], profile[1], req.body["stream"],
                                          JSONStringify(sent))>>
           /\ pc' = "accept"
    /\ UNCHANGED <<pool, req, headers, signed, log, credential, host, profile,
                   signerInput, thrown>>

\* lines 45-55, with the call of getStrictlyValidatedBodyForAws at line 54
BuildRequest ==
    /\ pc = "build"
    /\ LET validated == getStrictlyValidatedBodyForAws(req)
       IN  IF validated.threw
           THEN /\ thrown' = <<validated.error>>
                /\ pc' = "failed"
                /\ UNCHANGED newRequest
           ELSE /\ newRequest' = <<HttpRequest(host[1], profile[1],
                                               req.body["stream"],
                                               JSONStringify(validated.value))>>
                /\ pc' = "accept"
                /\ UNCHANGED thrown
    /\ UNCHANGED <<pool, req, headers, signed, log, credential, host, profile,
                   signerInput>>

\* lines 57-61
SetAcceptHeader ==
    /\ pc = "accept"
    /\ newRequest' = <<[newRequest[1] EXCEPT !.headers =
                           AcceptHeaders(@, req.body["stream"])]>>
    /\ pc' = "log"
    /\ UNCHANGED <<pool, req, headers, signed, log, credential, host, profile,
                   signerInput, thrown>>

\* lines 63-67
LogAssignment ==
    /\ pc = "log"
    /\ log' = Append(log, AssignedRecord(pool, req, profile[1]))
    /\ pc' = "sign"
    /\ UNCHANGED <<pool, req, headers, signed, credential, host, profile,
                   newRequest, signerInput, thrown>>

\* faulty variant: the path is rebuilt from the model id after signing
SignAndSetRepathed ==
    /\ pc = "sign"
    /\ LET got == getCredentialParts(req.key[1])
       IN  /\ log' = log \o got.logs
           /\ IF got.threw
              THEN /\ thrown' = <<got.error>>
                   /\ pc' = "failed"
                   /\ UNCHANGED <<signed, signerInput>>
              ELSE /\ signerInput' = Append(signerInput, newRequest[1])
                   /\ \E rejects \in BOOLEAN, now \in Timestamps :
                         IF rejects
                         THEN /\ thrown' = <<SigningError>>
                              /\ pc' = "failed"
                              /\ UNCHANGED signed
                         ELSE /\ signed' = Append(signed,
                                      [sign(newRequest[1], got.value, now)
                                          EXCEPT !.path = PathOf(req.body["model"],
                                                                req.body["stream"])])
                              /\ pc' = "done"
                              /\ UNCHANGED thrown
    /\ UNCHANGED <<pool, req, headers, credential, host, profile, newRequest>>

\* line 69: getCredentialParts again, sign, manager.setSignedRequest
SignAndSet ==
    /\ pc = "sign"
    /\ LET got == getCredentialParts(req.key[1])
       IN  /\ log' = log \o got.logs
           /\ IF got.threw
              THEN /\ thrown' = <<got.error>>
                   /\ pc' = "failed"
                   /\ UNCHANGED <<signed, signerInput>>
              ELSE /\ signerInput' = Append(signerInput, newRequest[1])
                   /\ \E rejects \in BOOLEAN, now \in Timestamps :
                         IF rejects
                         THEN /\ thrown' = <<SigningError>>
                              /\ pc' = "failed"
                              /\ UNCHANGED signed
                         ELSE /\ signed' = Append(signed,
                                               sign(newRequest[1], got.value, now))
                              /\ pc' = "done"
                              /\ UNCHANGED thrown
    /\ UNCHANGED <<pool, req, headers, credential, host, profile, newRequest>>

Next ==
    \/ AssignKey
    \/ ExtractCredential
    \/ SetVersionHeader
    \/ ChooseProfile
    \/ BuildRequest
    \/ SetAcceptHeader
    \/ LogAssignment
    \/ SignAndSet

Spec == Init /\ [][Next]_vars

(***************************************************************************)
(* Properties.                                                             *)
(***************************************************************************)
Stream == req.body["stream"]
Model == req.body["model"]
AfterCredential == pc \notin {"start", "credential"}
VersionHeaderSet == headers = <<<<"anthropic-version", "2023-06-01">>>>

\* C1: the resource identifier is chosen once, before the unsigned request
\* is built and before signing; the path of the signed request handed to
\* setSignedRequest is the path of the request given to the signer, which
\* is the path built from the chosen identifier and the path the signature
\* covers; no step changes the identifier or the path afterwards.
PathFixedBeforeSigning ==
    /\ [](newRequest # << >> =>
            /\ profile # << >>
            /\ newRequest[1].path = PathOf(profile[1], Stream))
    /\ [](signerInput # << >> => signerInput[1].path = newRequest[1].path)
    /\ [](signed # << >> =>
            /\ signerInput # << >>
            /\ signed[1].path = signerInput[1].path
            /\ signed[1].headers["authorization"].signature.canonical.path
                   = signed[1].path)
    /\ [][profile # << >> => profile' = profile]_vars
    /\ [][newRequest # << >> =>
            newRequest' # << >> /\ newRequest'[1].path = newRequest[1].path]_vars
    /\ [][signed # << >> => signed' = signed]_vars

\* C1 witness: a request signed with an inference profile in its path
SignedWithProfile ==
    /\ pc = "done"
    /\ signed # << >>
    /\ profile[1] # Model
    /\ signed[1].path = PathOf(profile[1], Stream)

\* the positions p < q of the two colons of a triple of non-empty, colon-free
\* segments
IsTriple(s, p, q) ==
    /\ 1 < p /\ p + 1 < q /\ q < Len(s)
    /\ \A i \in 1..Len(s) : (s[i] = ":") <=> (i \in {p, q})

\* the non-empty colon-delimited segments of s, as <<first, last>> positions
NonEmptySegments(s) ==
    {<<i, j>> \in (1..Len(s)) \X (1..Len(s)) :
        /\ i <= j
        /\ \A k \in i..j : s[k] # ":"
        /\ (i = 1 \/ s[i - 1] = ":")
        /\ (j = Len(s) \/ s[j + 1] = ":")}

\* C2: for a secret AK:SK:region with non-empty colon-free AK, SK, region,
\* getCredentialParts returns exactly {AK, SK, region}; for a secret with
\* fewer than three non-empty colon-delimited segments it throws; it never
\* returns a Credential with an empty field.
CredentialPartsExact ==
    AfterCredential =>
        LET s == pool.key
        IN  /\ \A p, q \in 1..Len(s) :
                  IsTriple(s, p, q) =>
                      credential = <<[accessKeyId |-> SubSeq(s, 1, p - 1),
                                      secretAccessKey |-> SubSeq(s, p + 1, q - 1),
                                      region |-> SubSeq(s, q + 1, Len(s))]>>
            /\ Cardinality(NonEmptySegments(s)) < 3 =>
                  /\ credential = << >>
                  /\ pc = "failed"
                  /\ thrown = <<"The key assigned to this request is invalid.">>
            /\ credential # << >> =>
                  /\ credential[1].accessKeyId # << >>
                  /\ credential[1].secretAccessKey # << >>
                  /\ credential[1].region # << >>
            /\ getCredentialParts(pool).threw <=> (credential = << >>)

\* C2 witness: a triple with three different-looking parts was extracted
TripleExtracted ==
    /\ credential # << >>
    /\ credential[1].accessKeyId # credential[1].secretAccessKey
    /\ Len(pool.key) = 5

\* C2 witness, failing side is reached as well
MalformedRejected ==
    /\ pc = "failed"
    /\ credential = << >>
    /\ Cardinality(NonEmptySegments(pool.key)) = 2

\* C3: a failure of a component (malformed credential, unsupported
\* outboundApi, body validation, signing) is propagated as the invocation's
\* error, no signed request is set, and nothing runs after the failure; a
\* signed request is set only when every step succeeded, exactly once.
FailureAbortsSigning ==
    /\ [](pc = "failed" <=> thrown # << >>)
    /\ [](thrown # << >> => signed = << >>)
    /\ [](AfterCredential /\ getCredentialParts(pool).threw =>
            thrown = <<"The key assigned to this request is invalid.">>)
    /\ [](pc \in {"accept", "log", "sign", "done"} =>
            ~getStrictlyValidatedBodyForAws(req).threw)
    /\ [](AfterCredential /\ pc \notin {"header", "profile", "build"}
             /\ ~getCredentialParts(pool).threw
             /\ getStrictlyValidatedBodyForAws(req).threw =>
            thrown = <<getStrictlyValidatedBodyForAws(req).error>>)
    /\ [](Len(signed) <= 1 /\ Len(signerInput) <= 1)
    /\ []((signed # << >>) <=> (pc = "done"))
    /\ [](pc = "done" =>
            /\ credential # << >>
            /\ profile # << >>
            /\ newRequest # << >>
            /\ signerInput = newRequest)
    /\ [][thrown # << >> => UNCHANGED vars]_vars

\* C3 witness: the signer rejected and no signed request was set
SignerRejected ==
    /\ pc = "failed"
    /\ thrown = <<SigningError>>
    /\ signerInput # << >>
    /\ signed = << >>

\* C3 witness, validation failure
ValidationRejected ==
    /\ pc = "failed"
    /\ thrown = <<ZodError>>
    /\ signed = << >>

\* C4: for anthropic-text and anthropic-chat, the sanitized body has no key
\* outside the dialect's allow-list, apart from anthropic_version for chat.
SanitizedKeysAllowed ==
    LET out == getStrictlyValidatedBodyForAws(req)
        text == {"prompt", "max_tokens_to_sample", "stop_sequences",
                 "temperature", "top_k", "top_p"}
        chat == {"messages", "system", "max_tokens", "stop_sequences",
                 "temperature", "top_k", "top_p"}
    IN  /\ req.outboundApi = "anthropic-text" /\ ~out.threw =>
              DOMAIN out.value \subseteq text
        /\ req.outboundApi = "anthropic-chat" /\ ~out.threw =>
              DOMAIN out.value \subseteq chat \cup {"anthropic_version"}
        /\ req.outboundApi = "anthropic-text" /\ newRequest # << >> =>
              DOMAIN newRequest[1].body.json \subseteq text
        /\ req.outboundApi = "anthropic-chat" /\ newRequest # << >> =>
              DOMAIN newRequest[1].body.json \subseteq chat \cup {"anthropic_version"}

\* C4 witness: a body with a field outside the allow-list was sanitized
ExtraFieldStripped ==
    /\ req.outboundApi = "anthropic-text"
    /\ "foo" \in DOMAIN req.body
    /\ "temperature" \in DOMAIN req.body
    /\ newRequest # << >>
    /\ "temperature" \in DOMAIN newRequest[1].body.json

\* C5: if some inference profile id contains the model id, the chosen
\* identifier is the first such profile; otherwise it is the model id.
FirstMatchingProfile ==
    profile # << >> =>
        LET ids == pool.inferenceProfileIds
            matches == {i \in 1..Len(ids) : Includes(ids[i], Model)}
        IN  IF matches # {}
            THEN \E i \in matches :
                    /\ \A j \in matches : i <= j
                    /\ profile[1] = ids[i]
            ELSE profile[1] = Model

\* C5 witness: two different profiles match and the first was chosen
FirstOfTwoChosen ==
    /\ profile # << >>
    /\ Len(pool.inferenceProfileIds) = 2
    /\ pool.inferenceProfileIds[1] # pool.inferenceProfileIds[2]
    /\ Includes(pool.inferenceProfileIds[1], Model)
    /\ Includes(pool.inferenceProfileIds[2], Model)
    /\ profile[1] = pool.inferenceProfileIds[1]
    /\ profile[1] # Model

\* C5 witness, the fallback: profiles exist, none matches
FallbackToModel ==
    /\ profile # << >>
    /\ pool.inferenceProfileIds # << >>
    /\ profile[1] = Model

\* C6: with an outboundApi other than anthropic-text, anthropic-chat,
\* mistral-ai and mistral-text, getStrictlyValidatedBodyForAws throws
\* whatever the body holds, and no request is built from the body.
UnsupportedApiRejected ==
    req.outboundApi \notin {"anthropic-text", "anthropic-chat", "mistral-ai",
                            "mistral-text"} =>
        /\ getStrictlyValidatedBodyForAws(req).threw
        /\ getStrictlyValidatedBodyForAws(req).error
               = "Unexpected outbound API for AWS."
        /\ newRequest = << >>
        /\ signed = << >>
        /\ pc \notin {"accept", "log", "sign", "done"}
        /\ pc = "failed" => thrown = <<"Unexpected outbound API for AWS.">>

\* C6 witness: an invocation failed on an unsupported dialect whose body
\* would have passed the chat schema
UnsupportedApiFailed ==
    /\ pc = "failed"
    /\ req.outboundApi = "openai"
    /\ "messages" \in DOMAIN req.body
    /\ req.body["messages"] = "v1"
    /\ thrown = <<UnexpectedApiError>>

\* the request of lines 45-61 is built once the accept header is chosen
BuiltRequests ==
    (IF pc \in {"log", "sign", "done"} THEN {newRequest[1]} ELSE {})
        \cup {signerInput[i] : i \in 1..Len(signerInput)}
        \cup {signed[i] : i \in 1..Len(signed)}

\* C7: with stream the path ends in -with-response-stream and the headers
\* hold x-amzn-bedrock-accept and not accept; without it the path ends in
\* /invoke and the headers hold accept and not x-amzn-bedrock-accept.
StreamingToggle ==
    \A r \in BuiltRequests :
        /\ Stream =>
              /\ EndsWith(r.path, StreamSuffix)
              /\ "x-amzn-bedrock-accept" \in DOMAIN r.headers
              /\ "accept" \notin DOMAIN r.headers
        /\ ~Stream =>
              /\ EndsWith(r.path, InvokeSuffix)
              /\ ~EndsWith(r.path, StreamSuffix)
              /\ "accept" \in DOMAIN r.headers
              /\ "x-amzn-bedrock-accept" \notin DOMAIN r.headers
        /\ Cardinality(DOMAIN r.headers \cap {"accept", "x-amzn-bedrock-accept"}) = 1

\* C7 witness: a streaming request was signed
StreamingSigned ==
    /\ pc = "done"
    /\ Stream
    /\ signed[1].headers["x-amzn-bedrock-accept"] = "application/json"

\* C7 witness, not streaming
PlainSigned ==
    /\ pc = "done"
    /\ ~Stream
    /\ signed[1].headers["accept"] = "*/*"

\* the secrets getCredentialParts rejects
MalformedSecrets == {s \in Secrets : getCredentialParts(Key(s, <<"0">>, << >>)).threw}

\* the secret (when not empty), or a non-empty segment of it, occurs in a
\* logged string
Leaks(value) ==
    \/ pool.key # << >> /\ Includes(value, pool.key)
    \/ \E seg \in NonEmptySegments(pool.key) :
          Includes(value, SubSeq(pool.key, seg[1], seg[2]))

\* C8: a failed credential extraction is reported with the key's hash only:
\* the error record and the thrown error are those of any other malformed
\* secret with the same hash, and neither holds the secret or a segment of
\* it; the success record carries the hash and never the secret.
ReportsCarryOnlyTheHash ==
    /\ \A i \in 1..Len(log) :
          /\ log[i].key = pool.hash
          /\ ~Leaks(log[i].key)
          /\ log[i].level = "error" =>
                log[i] = [level |-> "error", key |-> pool.hash,
                          msg |-> "AWS_CREDENTIALS isn't correctly formatted; refer to the docs"]
          /\ log[i].level = "info" =>
                /\ log[i] = [level |-> "info", key |-> pool.hash,
                             model |-> Model, profile |-> profile[1],
                             inboundApi |-> req.inboundApi,
                             outboundApi |-> req.outboundApi,
                             msg |-> "Assigned AWS credentials to request"]
                /\ ~Leaks(log[i].model)
                /\ ~Leaks(log[i].profile)
    /\ pc = "failed" /\ credential = << >> =>
          /\ Len(log) = 1
          /\ \A other \in MalformedSecrets :
                LET again == getCredentialParts([pool EXCEPT !.key = other])
                IN  /\ again.logs = log
                    /\ <<again.error>> = thrown

\* C8 witness: a malformed secret with a non-empty segment was reported
MalformedReported ==
    /\ pc = "failed"
    /\ credential = << >>
    /\ Len(log) = 1
    /\ NonEmptySegments(pool.key) # {}
    /\ pool.hash = <<"1">>

\* C8 witness, the success record
AssignmentLogged ==
    /\ pc = "done"
    /\ Len(log) = 1
    /\ log[1].level = "info"

\* C9: for anthropic-chat every sanitized body holds anthropic_version =
\* "bedrock-2023-05-31" whatever the client sent, and the allow-listed fields
\* the client sent with their values; for anthropic-text nothing is injected.
ChatVersionInjected ==
    LET out == getStrictlyValidatedBodyForAws(req)
        chat == {"messages", "system", "max_tokens", "stop_sequences",
                 "temperature", "top_k", "top_p"}
        text == {"prompt", "max_tokens_to_sample", "stop_sequences",
                 "temperature", "top_k", "top_p"}
    IN  /\ req.outboundApi = "anthropic-chat" /\ ~out.threw =>
              /\ DOMAIN out.value = (DOMAIN req.body \cap chat) \cup {"anthropic_version"}
              /\ out.value["anthropic_version"] = "bedrock-2023-05-31"
              /\ \A k \in DOMAIN req.body \cap chat : out.value[k] = req.body[k]
        /\ req.outboundApi = "anthropic-text" /\ ~out.threw =>
              /\ DOMAIN out.value = DOMAIN req.body \cap text
              /\ \A k \in DOMAIN req.body \cap text : out.value[k] = req.body[k]
        /\ req.outboundApi \in {"anthropic-chat", "anthropic-text"}
              /\ newRequest # << >> =>
              newRequest[1].body = JSONStringify(out.value)
        /\ req.outboundApi = "anthropic-chat"
              /\ DOMAIN req.body = {"model", "stream", "messages", "temperature", "foo"}
              /\ req.body["messages"] = "v1" /\ req.body["temperature"] = "v1" =>
              /\ ~out.threw
              /\ out.value = [messages |-> "v1", temperature |-> "v1",
                              anthropic_version |-> "bedrock-2023-05-31"]

\* C9 witness: the client sent its own anthropic_version and a stray field
ClientVersionOverridden ==
    /\ req.outboundApi = "anthropic-chat"
    /\ newRequest # << >>
    /\ "anthropic_version" \in DOMAIN req.body
    /\ req.body["anthropic_version"] = "v1"
    /\ newRequest[1].body.json["anthropic_version"] = "bedrock-2023-05-31"

\* C9 witness, the scenario {messages, temperature, foo}
ScenarioSanitized ==
    /\ req.outboundApi = "anthropic-chat"
    /\ DOMAIN req.body = {"model", "stream", "messages", "temperature", "foo"}
    /\ pc = "done"

\* C10 as stated: every invocation, whatever the credential, sets the
\* header anthropic-version: 2023-06-01.
VersionHeaderAlwaysSet ==
    pc \in {"done", "failed"} => VersionHeaderSet

\* C10 amended: every invocation whose credential extraction succeeds sets
\* the header, whatever the model, dialect and body, before sanitization
\* runs; an invocation whose credential is malformed ends without it.
VersionHeaderSetAfterCredential ==
    /\ pc \in {"profile", "build", "accept", "log", "sign", "done"} =>
          VersionHeaderSet
    /\ pc = "failed" /\ credential # << >> => VersionHeaderSet
    /\ newRequest # << >> => VersionHeaderSet
    /\ thrown # << >> /\ thrown # <<CredentialError>> => VersionHeaderSet
    /\ pc = "failed" /\ credential = << >> => headers = << >>
    /\ pc \in {"start", "credential", "header"} => headers = << >>

\* C10 witness: sanitization rejected the body and the header is set
HeaderSetBeforeRejectedBody ==
    /\ pc = "failed"
    /\ thrown = <<UnexpectedApiError>>
    /\ VersionHeaderSet

====
